---- MODULE Spec2Model ----
(***************************************************************************)
(* The plant-analysis component (MainContainer) of AfriPlant-Identifier.   *)
(* The repository holds six variants of the component; the variable        *)
(* variant says which one a behaviour is about:                            *)
(*   "KQ"    src/components/main-container.tsx 1-317   keywords + questions*)
(*   "Fake"  src/components/main-container.tsx 318-560 simulated analysis  *)
(*   "Dyn"   src/components/main-container.tsx 561-840 generated questions *)
(*   "Props" src/components/main-container.tsx 841-1057 plant properties   *)
(*   "PQ"    src/unnamed/part_000 1-280   properties + regex questions     *)
(*   "PW"    src/unnamed/part_000 282-536 properties + related words       *)
(* A text is a sequence of one-character strings.                          *)
(***************************************************************************)
EXTENDS Integers, Sequences, FiniteSets, TLC

\* ------------------------------------------------------------ text helpers

NL == "\n"

\* The backquote character of a code fence. A string of this module cannot hold
\* the character itself, so it is written by name.
BQ == "BQ"

\* The characters JavaScript's \s and trim() treat as white space, among those
\* the texts of the model are made of.
IsSpace(c) == c \in {" ", NL, "\t"}

UpperLetters ==
  << "A","B","C","D","E","F","G","H","I","J","K","L","M",
     "N","O","P","Q","R","S","T","U","V","W","X","Y","Z" >>

LowerLetters ==
  << "a","b","c","d","e","f","g","h","i","j","k","l","m",
     "n","o","p","q","r","s","t","u","v","w","x","y","z" >>

\* String.prototype.toLowerCase, one character.
LowerChar(c) ==
  IF \E i \in 1..26 : UpperLetters[i] = c
    THEN LowerLetters[CHOOSE i \in 1..26 : UpperLetters[i] = c]
    ELSE c

\* String.prototype.toLowerCase.
ToLowerCase(s) == [i \in 1..Len(s) |-> LowerChar(s[i])]

\* s from its n-th character on (1-based); empty when n > Len(s).
Drop(s, n) == SubSeq(s, n, Len(s))

\* Whether s has pat at position i.
HasAt(s, i, pat) ==
  /\ i >= 1
  /\ i + Len(pat) - 1 <= Len(s)
  /\ SubSeq(s, i, i + Len(pat) - 1) = pat

\* String.prototype.includes.
Includes(s, pat) == \E i \in 1..(Len(s) + 1) : HasAt(s, i, pat)

\* The length of the longest run of white space s starts with.
SpaceRun(s) ==
  CHOOSE n \in 0..Len(s) :
    /\ \A i \in 1..n : IsSpace(s[i])
    /\ n = Len(s) \/ ~IsSpace(s[n + 1])

\* The length of the longest run of white space s ends with.
SpaceRunEnd(s) ==
  CHOOSE n \in 0..Len(s) :
    /\ \A i \in (Len(s) - n + 1)..Len(s) : IsSpace(s[i])
    /\ n = Len(s) \/ ~IsSpace(s[Len(s) - n])

\* String.prototype.trim.
Trim(s) ==
  IF SpaceRun(s) = Len(s) THEN <<>>
  ELSE SubSeq(s, SpaceRun(s) + 1, Len(s) - SpaceRunEnd(s))

\* The least member of a non-empty set of positions.
Least(S) == CHOOSE i \in S : \A j \in S : i <= j

\* s.replace(/pat/g, "") for a literal pat: leftmost, non-overlapping.
RECURSIVE RemoveAll(_, _)
RemoveAll(s, pat) ==
  LET at == { i \in 1..Len(s) : HasAt(s, i, pat) }
  IN  IF at = {} THEN s
      ELSE SubSeq(s, 1, Least(at) - 1) \o RemoveAll(Drop(s, Least(at) + Len(pat)), pat)

\* s.replace(/-\s*/g, ""): each '-' goes with the white space that follows it.
RECURSIVE RemoveDashes(_)
RemoveDashes(s) ==
  LET at == { i \in 1..Len(s) : s[i] = "-" }
  IN  IF at = {} THEN s
      ELSE LET k == Least(at)
           IN  SubSeq(s, 1, k - 1)
                 \o RemoveDashes(Drop(s, k + 1 + SpaceRun(Drop(s, k + 1))))

\* The position of the last line break among the first n characters of s, or 0.
LastBreak(s, n) ==
  IF \E i \in 1..n : s[i] = NL
    THEN CHOOSE i \in 1..n : s[i] = NL /\ \A j \in (i + 1)..n : s[j] # NL
    ELSE 0

\* How far the white space after position k of s reaches to a line break, or 0.
BlankSpan(s, k) == LastBreak(Drop(s, k + 1), SpaceRun(Drop(s, k + 1)))

\* s.replace(/\n\s*\n/g, "\n"): \s* is greedy, so a match runs from a line
\* break to the last line break of the white space after it.
RECURSIVE CollapseBlankLines(_)
CollapseBlankLines(s) ==
  LET at == { i \in 1..Len(s) : s[i] = NL /\ BlankSpan(s, i) > 0 }
  IN  IF at = {} THEN s
      ELSE LET k == Least(at)
           IN  SubSeq(s, 1, k) \o CollapseBlankLines(Drop(s, k + 1 + BlankSpan(s, k)))

\* The clean-up chain every variant applies to the AI's text.
Normalize(raw) ==
  CollapseBlankLines(
    RemoveDashes(
      RemoveAll(
        RemoveAll(
          RemoveAll(Trim(raw), <<BQ, BQ, BQ>>),
          <<"*", "*">>),
        <<"*">>)))

\* String.prototype.split("\n"): the lines of s; the empty text has one line.
RECURSIVE SplitLines(_)
SplitLines(s) ==
  IF \E i \in 1..Len(s) : s[i] = NL
    THEN LET k == CHOOSE i \in 1..Len(s) : s[i] = NL /\ \A j \in 1..(i - 1) : s[j] # NL
         IN  <<SubSeq(s, 1, k - 1)>> \o SplitLines(Drop(s, k + 1))
    ELSE <<s>>

\* Array.prototype.slice(0, n).
Slice0(xs, n) == SubSeq(xs, 1, IF Len(xs) < n THEN Len(xs) ELSE n)

\* String.prototype.split(sep) for a one-character separator.
RECURSIVE SplitOn(_, _)
SplitOn(s, sep) ==
  IF \E i \in 1..Len(s) : s[i] = sep
    THEN LET k == CHOOSE i \in 1..Len(s) : s[i] = sep /\ \A j \in 1..(i - 1) : s[j] # sep
         IN  <<SubSeq(s, 1, k - 1)>> \o SplitOn(Drop(s, k + 1), sep)
    ELSE <<s>>

\* String.prototype.split(/\s+/): the tokens between runs of white space.
RECURSIVE SplitSpaces(_)
SplitSpaces(s) ==
  IF \E i \in 1..Len(s) : IsSpace(s[i])
    THEN LET k == CHOOSE i \in 1..Len(s) :
                    IsSpace(s[i]) /\ \A j \in 1..(i - 1) : ~IsSpace(s[j])
         IN  <<SubSeq(s, 1, k - 1)>>
               \o SplitSpaces(Drop(s, k + SpaceRun(Drop(s, k))))
    ELSE <<s>>

\* Array.from(new Set(xs)): the distinct entries in order of first occurrence.
RECURSIVE Distinct(_)
Distinct(xs) ==
  IF xs = <<>> THEN <<>>
  ELSE LET init == Distinct(SubSeq(xs, 1, Len(xs) - 1))
           last == xs[Len(xs)]
       IN  IF \E i \in 1..Len(init) : init[i] = last THEN init ELSE Append(init, last)

\* Array.prototype.map(q => q.trim()).
TrimEach(xs) == [i \in 1..Len(xs) |-> Trim(xs[i])]

\* Array.prototype.filter(Boolean) on strings: the non-empty entries.
NonEmpty(xs) == SelectSeq(xs, LAMBDA x : x # <<>>)

\* ------------------------------------------------------------ the extractors

\* The cap of slice(0, 5) in extractPlantProperties, generateKeywords and the
\* generated questions.
MaxEntries == 5

\* The word.length > 4 test of generateKeywords.
MinKeywordLen == 4

HasColon(line) == Includes(line, <<":">>)

\* extractPlantProperties without its filter: the first five lines.
extractPlantProperties_AllLines(t) == Slice0(SplitLines(t), MaxEntries)

\* extractPlantProperties without its slice(0, 5).
extractPlantProperties_NoCap(t) == SelectSeq(SplitLines(t), HasColon)

\* extractPlantProperties: the first five lines that hold a colon.
extractPlantProperties(t) ==
  Slice0(SelectSeq(SplitLines(t), HasColon), MaxEntries)

\* The inline extraction of the simulated analysis: no cap.
extractPlantPropertiesFake(t) == SelectSeq(SplitLines(t), HasColon)

StopWords ==
  { <<"t","h","i","s">>, <<"t","h","a","t">>, <<"w","i","t","h">>,
    <<"f","r","o","m">>, <<"h","a","v","e">> }

IsKeyword(word) == Len(word) > MinKeywordLen /\ ToLowerCase(word) \notin StopWords

\* generateKeywords with an array in place of its Set.
generateKeywords_NoSet(t) ==
  Slice0(SelectSeq(SplitSpaces(t), IsKeyword), MaxEntries)

\* generateKeywords without its slice(0, 5).
generateKeywords_NoCap(t) == Distinct(SelectSeq(SplitSpaces(t), IsKeyword))

\* generateKeywords: the value it hands to setKeywords.
generateKeywords(t) ==
  Slice0(Distinct(SelectSeq(SplitSpaces(t), IsKeyword)), MaxEntries)

\* generateRelatedQuestions: the questions made of the second call's text.
generateRelatedQuestions(q) == SplitLines(Trim(q))

IsDigit(c) == c \in {"0","1","2","3","4","5","6","7","8","9"}

\* The length of the longest run of digits s starts with.
DigitRun(s) ==
  CHOOSE n \in 0..Len(s) :
    /\ \A i \in 1..n : IsDigit(s[i])
    /\ n = Len(s) \/ ~IsDigit(s[n + 1])

\* q.replace(/^\d+\.\s*/, ""): a leading numbering is dropped.
StripNumbering(q) ==
  LET d == DigitRun(q)
  IN  IF d > 0 /\ d < Len(q) /\ q[d + 1] = "."
        THEN Drop(q, d + 2 + SpaceRun(Drop(q, d + 2)))
        ELSE q

\* The questions without slice(0, 5).
dynamicQuestions_NoCap(q) ==
  LET lines == SplitLines(Trim(q))
  IN  [i \in 1..Len(lines) |-> Trim(StripNumbering(lines[i]))]

\* The questions the question-generating analysis makes of its second call.
dynamicQuestions(q) ==
  LET lines == SplitLines(Trim(q))
  IN  Slice0([i \in 1..Len(lines) |-> Trim(StripNumbering(lines[i]))], MaxEntries)

QuestionMarker ==
  <<"r","e","l","a","t","e","d"," ","q","u","e","s","t","i","o","n">>

\* Where /related question[s]?:/i ends when it matches at position i of the
\* lower-cased text low (the position of its colon), or 0.
MarkerEnd(low, i) ==
  IF ~HasAt(low, i, QuestionMarker) THEN 0
  ELSE IF HasAt(low, i + Len(QuestionMarker), <<"s", ":">>)
    THEN i + Len(QuestionMarker) + 1
  ELSE IF HasAt(low, i + Len(QuestionMarker), <<":">>)
    THEN i + Len(QuestionMarker)
  ELSE 0

\* match[1] of /related question[s]?:\s*([\s\S]+?)(?:\n|$)/i for the text
\* after the colon: \s* is greedy and the group lazy, so the group is what is
\* left of the first line after the white space; when nothing but white space
\* follows the colon, \s* gives back its last character to the group.
MarkerGroup(rest) ==
  LET w     == SpaceRun(rest)
      after == Drop(rest, w + 1)
  IN  IF after # <<>> THEN Head(SplitLines(after)) ELSE <<rest[w]>>

\* extractRelatedQuestions: the list it returns. The pattern needs a character
\* after its colon, and the leftmost place where it matches is taken.
extractRelatedQuestions(t) ==
  LET low    == ToLowerCase(t)
      starts == { i \in 1..Len(t) : MarkerEnd(low, i) > 0 /\ MarkerEnd(low, i) < Len(t) }
  IN  IF starts = {} THEN <<>>
      ELSE NonEmpty(TrimEach(SplitLines(
             MarkerGroup(Drop(t, MarkerEnd(low, Least(starts)) + 1)))))

KeywordsMarker ==
  <<"r","e","l","a","t","e","d"," ","k","e","y","w","o","r","d","s">>

IsKeywordsLine(line) == Includes(ToLowerCase(line), KeywordsMarker)

\* extractRelatedWords: what it does with a text. "none": no line names the
\* related keywords and setRelatedWords is not called; "throw": the line has no
\* colon, split(":")[1] is undefined and its split raises a TypeError; "set":
\* setRelatedWords(words).
extractRelatedWords(t) ==
  LET found == SelectSeq(SplitLines(t), IsKeywordsLine)
  IN  IF found = <<>> THEN [kind |-> "none", words |-> <<>>]
      ELSE LET parts == SplitOn(Head(found), ":")
           IN  IF Len(parts) < 2 THEN [kind |-> "throw", words |-> <<>>]
               ELSE [kind |-> "set", words |-> TrimEach(SplitOn(parts[2], ","))]

\* ------------------------------------------------------------ values

Variants == {"KQ", "Fake", "Dyn", "Props", "PQ", "PW"}

\* The variants whose analyzeImage awaits the AI service.
AiVariants == {"KQ", "Dyn", "Props", "PQ", "PW"}

\* useState<string | null>(null): the null result. It is no text, as a text
\* holds one-character strings only.
Null == <<"null">>

\* An image: an uploaded file, or a photo taken from camera stream id (id 0: the
\* photo of an empty canvas).
NoImage == [kind |-> "none", id |-> 0]
Upload(n) == [kind |-> "upload", id |-> n]
Capture(s) == [kind |-> "capture", id |-> s]

\* What a JSX condition {result && ...} tests.
Truthy(t) == t # Null /\ t # <<>>

\* How many files the user has to choose from.
MaxFiles == 1

\* How many camera streams a behaviour acquires at most.
MaxStreams == 2

\* How many asynchronous operations the user has started and not seen finish.
MaxProcs == 2

\* ------------------------------------------------------------ the AI's texts

\* The simulated analysis result (fakeResult).
fakeResult ==
  <<"P","L","A","N","T"," ","N","A","M","E",":"," ","A","l","o","e"," ","V",
    "e","r","a",NL,"S","P","E","C","I","E","S",":"," ","A","l","o","e"," ",
    "b","a","r","b","a","d","e","n","s","i","s"," ","m","i","l","l","e","r",
    NL,"C","A","R","E"," ","R","E","C","O","M","M","E","N","D","A","T","I",
    "O","N","S",":"," ","K","e","e","p"," ","i","n"," ","s","u","n","l","i",
    "g","h","t",","," ","w","a","t","e","r"," ","s","p","a","r","i","n","g",
    "l","y",NL,"H","E","A","L","T","H"," ","D","I","A","G","N","O","S","I",
    "S",":"," ","H","e","a","l","t","h","y",NL,"R","E","C","O","M","M","E",
    "N","D","E","D"," ","S","E","A","S","O","N",":"," ","S","u","m","m","e",
    "r">>

\* The simulated related questions (fakeQuestions).
fakeQuestions ==
  << <<"H","o","w"," ","t","o"," ","g","r","o","w"," ","A","l","o","e"," ","V",
       "e","r","a","?">>,
     <<"W","h","a","t"," ","a","r","e"," ","t","h","e"," ","m","e","d","i","c",
       "i","n","a","l"," ","u","s","e","s"," ","o","f"," ","A","l","o","e"," ",
       "V","e","r","a","?">>,
     <<"H","o","w"," ","t","o"," ","c","a","r","e"," ","f","o","r"," ","A","l",
       "o","e"," ","V","e","r","a"," ","i","n"," ","w","i","n","t","e","r","?">> >>

\* A description with markdown, property lines, a related-keywords line and
\* related questions.
RespFull ==
  <<"*","*","N","A","M","E",":","*","*"," ","A","l","o","e",NL,NL,"*"," ",
    "S","P","E","C","I","E","S",":"," ","V","e","r","a",NL,"R","e","l","a",
    "t","e","d"," ","K","e","y","w","o","r","d","s",":"," ","s","u","c","c",
    "u","l","e","n","t",","," ","g","r","e","e","n",NL,"R","e","l","a","t",
    "e","d"," ","q","u","e","s","t","i","o","n","s",":",NL,"H","o","w"," ",
    "m","u","c","h"," ","w","a","t","e","r","?",NL,"W","h","i","c","h"," ",
    "s","o","i","l","?">>

\* A description in which no extractor but the keyword one finds anything.
RespPlain ==
  <<"A"," ","h","e","a","l","t","h","y"," ","p","l","a","n","t"," ","w","i",
    "t","h"," ","b","r","o","a","d"," ","g","r","e","e","n"," ","l","e","a",
    "v","e","s">>

\* A description in which no extractor finds anything.
RespShort ==
  <<"o","k">>

\* A description with six property lines.
RespSix ==
  <<"A",":","1",NL,"B",":","2",NL,"C",":","3",NL,"D",":","4",NL,"E",":","5",
    NL,"F",":","6">>

\* A description whose related-keywords line has no colon.
RespBareKeywords ==
  <<"N","A","M","E",":"," ","F","e","r","n",NL,"r","e","l","a","t","e","d",
    " ","k","e","y","w","o","r","d","s"," ","-"," ","m","o","s","s",","," ",
    "s","h","a","d","e">>

\* The texts the description call (and the answer call) may resolve with.
Responses == {RespFull, RespPlain, RespShort, RespSix, RespBareKeywords}

\* A numbered list of questions.
QuestNumbered ==
  <<"1","."," ","H","o","w"," ","m","u","c","h"," ","w","a","t","e","r","?",
    NL,"2","."," ","W","h","i","c","h"," ","s","o","i","l","?">>

\* One question.
QuestPlain ==
  <<"W","h","a","t"," ","c","a","r","e","?">>

\* The texts the related-questions call may resolve with.
QuestionResponses == {QuestNumbered, QuestPlain}

\* ------------------------------------------------------------ state

VARIABLES
  variant,           \* which MainContainer the behaviour is about
  image,             \* useState<File | null>
  loading,           \* useState(false)
  result,            \* useState<string | null>
  plantProperties,   \* useState<string[]>  (Fake, Props, PQ, PW)
  Keywords,          \* useState<string[]>  (KQ)
  relatedQuestions,  \* useState<string[]>  (KQ: relatedQuestion; Fake, Dyn, PQ)
  relatedWords,      \* useState<string[]>  (PW)
  cameraStream,      \* useState<MediaStream | null>: a stream id, 0 for null
  cameraStarted,     \* useState(false)  (Dyn)
  capturedImageUrl,  \* useState<string | null>: the image the URL shows
  videoSrc,          \* videoRef.current.srcObject: a stream id, 0 for none
  liveStreams,       \* the acquired streams whose tracks are not stopped
  nStreams,          \* how many streams getUserMedia has handed out
  procs,             \* the asynchronous operations in flight, in start order
  op,                \* the handler step taken last: its name, and the AI calls
                     \* the handler it belongs to has issued by the end of it
  text               \* the input of a function checked on its own

analysisVars ==
  <<loading, result, plantProperties, Keywords, relatedQuestions, relatedWords>>

listVars == <<plantProperties, Keywords, relatedQuestions, relatedWords>>

cameraVars ==
  <<cameraStream, cameraStarted, capturedImageUrl, videoSrc, liveStreams, nStreams>>

\* The component's own state: every useState cell and the video element.
stateVars ==
  <<image, loading, result, plantProperties, Keywords, relatedQuestions,
    relatedWords, cameraStream, cameraStarted, capturedImageUrl, videoSrc>>

vars ==
  <<variant, image, loading, result, plantProperties, Keywords, relatedQuestions,
    relatedWords, cameraStream, cameraStarted, capturedImageUrl, videoSrc,
    liveStreams, nStreams, procs, op, text>>

\* An operation in flight. kind "analyze": an analyzeImage at pc "encode"
\* (fileToGenerativePart), "describe" (the image-description call) or
\* "questions" (the related-questions call), img the image it was started with,
\* txt the normalized description, calls the AI calls it has issued, out how
\* many of them have not settled.
\* kind "question": a handleRelatedQuestionClick awaiting its answer.
\* kind "camera": a getUserMedia request (pc "getUserMedia"), or a one-shot
\* capture waiting for the video's metadata (pc "metadata", img its stream).
\* kind "blob": a toBlob callback or data-URL fetch that will set img.
Proc(kind, pc, img, txt, calls, out) ==
  [kind |-> kind, pc |-> pc, img |-> img, txt |-> txt, calls |-> calls, out |-> out]

RemoveAt(xs, i) == SubSeq(xs, 1, i - 1) \o SubSeq(xs, i + 1, Len(xs))

Op(name, calls) == [name |-> name, calls |-> calls]

\* The state after construction, for the variants in vs.
InitOf(vs) ==
  /\ variant \in vs
  /\ image = NoImage
  /\ loading = FALSE
  /\ result = Null
  /\ plantProperties = <<>>
  /\ Keywords = <<>>
  /\ relatedQuestions = <<>>
  /\ relatedWords = <<>>
  /\ cameraStream = 0
  /\ cameraStarted = FALSE
  /\ capturedImageUrl = NoImage
  /\ videoSrc = 0
  /\ liveStreams = {}
  /\ nStreams = 0
  /\ procs = <<>>
  /\ op = Op("init", 0)

Init == InitOf(Variants) /\ text = <<>>

\* ------------------------------------------------------------ upload

\* A handleImageUpload that clears the result of the image it replaces.
handleImageUpload_ClearsResult(n) ==
  /\ image' = Upload(n)
  /\ capturedImageUrl' =
       IF variant \in {"Fake", "Dyn", "PQ"} THEN Upload(n) ELSE capturedImageUrl
  /\ cameraStarted' = IF variant = "Dyn" THEN TRUE ELSE cameraStarted
  /\ result' = Null
  /\ op' = Op("handleImageUpload", 0)
  /\ UNCHANGED <<variant, loading, listVars, cameraStream, videoSrc, liveStreams,
                 nStreams, procs, text>>

\* handleImageUpload with a file chosen.
handleImageUpload(n) ==
  /\ image' = Upload(n)
  /\ capturedImageUrl' =
       IF variant \in {"Fake", "Dyn", "PQ"} THEN Upload(n) ELSE capturedImageUrl
  /\ cameraStarted' = IF variant = "Dyn" THEN TRUE ELSE cameraStarted
  /\ op' = Op("handleImageUpload", 0)
  /\ UNCHANGED <<variant, analysisVars, cameraStream, videoSrc, liveStreams,
                 nStreams, procs, text>>

\* handleImageUpload with no file in the event: nothing is set.
handleImageUploadNoFile ==
  /\ op' = Op("handleImageUploadNoFile", 0)
  /\ UNCHANGED <<variant, image, analysisVars, cameraVars, procs, text>>

\* ------------------------------------------------------------ analysis

\* disabled={!image || loading} of the Analyze button, negated.
AnalyzeEnabled == image # NoImage /\ ~loading

\* analyzeImage without its setLoading(true).
analyzeImage_NoLoading(via) ==
  IF image = NoImage
    THEN /\ op' = Op(via, 0)
         /\ UNCHANGED <<variant, image, analysisVars, cameraVars, procs, text>>
    ELSE /\ procs' = Append(procs, Proc("analyze", "encode", image, <<>>, 0, 0))
         /\ op' = Op(via, 0)
         /\ UNCHANGED <<variant, image, analysisVars, cameraVars, text>>

\* analyzeImage without its "if (!image) return".
analyzeImage_NoGuard(via) ==
  /\ loading' = TRUE
  /\ procs' = Append(procs, Proc("analyze", "encode", image, <<>>, 0, 0))
  /\ op' = Op(via, 0)
  /\ UNCHANGED <<variant, image, result, listVars, cameraVars, text>>

\* analyzeImage, up to its first await. Without an image it returns at once;
\* the simulated analysis (Fake) runs to its end without awaiting, so that its
\* setLoading(true) and setLoading(false) are one update.
analyzeImage(via) ==
  IF image = NoImage
    THEN /\ op' = Op(via, 0)
         /\ UNCHANGED <<variant, image, analysisVars, cameraVars, procs, text>>
  ELSE IF variant = "Fake"
    THEN /\ result' = fakeResult
         /\ plantProperties' = extractPlantPropertiesFake(fakeResult)
         /\ relatedQuestions' = fakeQuestions
         /\ loading' = FALSE
         /\ op' = Op(via, 0)
         /\ UNCHANGED <<variant, image, Keywords, relatedWords, cameraVars,
                        procs, text>>
  ELSE   /\ loading' = TRUE
         /\ procs' = Append(procs, Proc("analyze", "encode", image, <<>>, 0, 0))
         /\ op' = Op(via, 0)
         /\ UNCHANGED <<variant, image, result, listVars, cameraVars, text>>

\* An Analyze button disabled only while no image is selected.
ClickAnalyze_WhileLoading ==
  /\ image # NoImage
  /\ Len(procs) < MaxProcs
  /\ analyzeImage("analyzeImage")

\* An Analyze button without its disabled attribute.
ClickAnalyze_NeverDisabled ==
  /\ Len(procs) < MaxProcs
  /\ analyzeImage("analyzeImage")

\* The Analyze button.
ClickAnalyze ==
  /\ AnalyzeEnabled
  /\ Len(procs) < MaxProcs
  /\ analyzeImage("analyzeImage")

\* regenerateContent: a click on one of the related keywords (KQ).
regenerateContent ==
  /\ variant = "KQ"
  /\ Truthy(result)
  /\ Keywords # <<>>
  /\ Len(procs) < MaxProcs
  /\ analyzeImage("regenerateContent")

\* askRelatedQuestion of KQ: a click on a related question starts an analysis.
askRelatedQuestion ==
  /\ variant = "KQ"
  /\ Truthy(result)
  /\ relatedQuestions # <<>>
  /\ Len(procs) < MaxProcs
  /\ analyzeImage("askRelatedQuestion")

\* analyzeImage called by something other than the page's buttons.
CallAnalyzeImage ==
  /\ Len(procs) < MaxProcs
  /\ analyzeImage("analyzeImage")

IsAt(i, kind, pc) ==
  /\ i \in 1..Len(procs)
  /\ procs[i].kind = kind
  /\ procs[i].pc = pc

\* A handler with setLoading(false) at the end of its try, not in a finally.
HandlerFailed_NoFinally(i, outcome) ==
  /\ procs' = RemoveAt(procs, i)
  /\ op' = Op(outcome, procs[i].calls)
  /\ UNCHANGED <<variant, image, analysisVars, cameraVars, text>>

\* A catch that clears the result as well.
HandlerFailed_ClearsResult(i, outcome) ==
  /\ loading' = FALSE
  /\ result' = Null
  /\ procs' = RemoveAt(procs, i)
  /\ op' = Op(outcome, procs[i].calls)
  /\ UNCHANGED <<variant, image, listVars, cameraVars, text>>

\* The finally block of a handler whose try failed: nothing but loading is set.
HandlerFailed(i, outcome) ==
  /\ loading' = FALSE
  /\ procs' = RemoveAt(procs, i)
  /\ op' = Op(outcome, procs[i].calls)
  /\ UNCHANGED <<variant, image, result, listVars, cameraVars, text>>

\* An analyzeImage that issues the related-questions call along with the
\* description call instead of awaiting the description.
encoded_BothCalls(i) ==
  /\ IsAt(i, "analyze", "encode")
  /\ procs' = [procs EXCEPT ![i].pc = "describe", ![i].calls = 2, ![i].out = 2]
  /\ op' = Op("encoded", 2)
  /\ UNCHANGED <<variant, image, analysisVars, cameraVars, text>>

\* fileToGenerativePart resolves and model.generateContent is called.
encoded(i) ==
  /\ IsAt(i, "analyze", "encode")
  /\ procs' = [procs EXCEPT ![i].pc = "describe", ![i].calls = 1, ![i].out = 1]
  /\ op' = Op("encoded", 1)
  /\ UNCHANGED <<variant, image, analysisVars, cameraVars, text>>

\* fileToGenerativePart rejects (reader.onerror).
encodeFailed(i) ==
  /\ IsAt(i, "analyze", "encode")
  /\ HandlerFailed(i, "encodeFailed")

\* The image-description call rejects, or its response has no text.
describeFailed(i) ==
  /\ IsAt(i, "analyze", "describe")
  /\ HandlerFailed(i, "describeFailed")

\* The lists extracted from the text as received, before normalization.
Analysis_ListsOfRaw(raw) ==
  [ text       |-> Normalize(raw),
    keywords   |-> generateKeywords(raw),
    properties |-> extractPlantProperties(raw),
    questions  |-> extractRelatedQuestions(raw),
    words      |-> extractRelatedWords(Normalize(raw)) ]

\* What the success path of analyzeImage computes from the AI's text raw: the
\* normalized text and what each extractor makes of it. extractRelatedQuestions
\* is given the text as the AI sent it.
Analysis(raw) ==
  [ text       |-> Normalize(raw),
    keywords   |-> generateKeywords(Normalize(raw)),
    properties |-> extractPlantProperties(Normalize(raw)),
    questions  |-> extractRelatedQuestions(raw),
    words      |-> extractRelatedWords(Normalize(raw)) ]

\* Analysis for each text of Responses.
AnalysisOf == [raw \in Responses |-> Analysis(raw)]

\* generateRelatedQuestions called with the result state of the render in
\* which the handler started, not with the text just received.
describedAs_QuestionsOfStaleResult(i, a) ==
  /\ IsAt(i, "analyze", "describe")
  /\ result' = a.text
  /\ Keywords' = IF variant = "KQ" THEN a.keywords ELSE Keywords
  /\ plantProperties' =
       IF variant \in {"Props", "PQ", "PW"} THEN a.properties ELSE plantProperties
  /\ relatedQuestions' = IF variant = "PQ" THEN a.questions ELSE relatedQuestions
  /\ relatedWords' =
       IF variant = "PW" /\ a.words.kind = "set" THEN a.words.words ELSE relatedWords
  /\ IF variant \in {"KQ", "Dyn"}
       THEN /\ procs' = [procs EXCEPT ![i].pc = "questions", ![i].calls = 2,
                                      ![i].txt = result]
            /\ op' = Op("described", 2)
            /\ UNCHANGED loading
       ELSE /\ procs' = RemoveAt(procs, i)
            /\ loading' = FALSE
            /\ op' = Op(IF variant = "PW" /\ a.words.kind = "throw"
                          THEN "extractFailed" ELSE "analyzed",
                        procs[i].calls)
  /\ UNCHANGED <<variant, image, cameraVars, text>>

\* The image-description call resolves with the text whose Analysis is a.
\* result and the lists of the variant are set; KQ and Dyn then issue the
\* related-questions call, the others finish. In PW extractRelatedWords sets
\* relatedWords only when it finds its line, and when it throws the catch of
\* analyzeImage runs, after result and plantProperties were set.
describedAs(i, a) ==
  /\ IsAt(i, "analyze", "describe")
  /\ result' = a.text
  /\ Keywords' = IF variant = "KQ" THEN a.keywords ELSE Keywords
  /\ plantProperties' =
       IF variant \in {"Props", "PQ", "PW"} THEN a.properties ELSE plantProperties
  /\ relatedQuestions' = IF variant = "PQ" THEN a.questions ELSE relatedQuestions
  /\ relatedWords' =
       IF variant = "PW" /\ a.words.kind = "set" THEN a.words.words ELSE relatedWords
  /\ IF variant \in {"KQ", "Dyn"}
       THEN /\ procs' = [procs EXCEPT ![i].pc = "questions", ![i].calls = 2,
                                      ![i].txt = a.text]
            /\ op' = Op("described", 2)
            /\ UNCHANGED loading
       ELSE /\ procs' = RemoveAt(procs, i)
            /\ loading' = FALSE
            /\ op' = Op(IF variant = "PW" /\ a.words.kind = "throw"
                          THEN "extractFailed" ELSE "analyzed",
                        procs[i].calls)
  /\ UNCHANGED <<variant, image, cameraVars, text>>

\* The image-description call resolves with raw.
described(i, raw) == describedAs(i, AnalysisOf[raw])

\* The image-description call resolves with the text under test.
describedText(i) == describedAs(i, Analysis(text))

\* generateRelatedQuestions and the question list of Dyn, for each text of
\* QuestionResponses.
QuestionsOf ==
  [raw \in QuestionResponses |->
     [KQ |-> generateRelatedQuestions(raw), Dyn |-> dynamicQuestions(raw)]]

\* The related-questions call resolves with the text of which the two
\* variants make the lists q.KQ and q.Dyn.
questionsDoneAs(i, q) ==
  /\ IsAt(i, "analyze", "questions")
  /\ relatedQuestions' = IF variant = "KQ" THEN q.KQ ELSE q.Dyn
  /\ loading' = FALSE
  /\ procs' = RemoveAt(procs, i)
  /\ op' = Op("questionsDone", procs[i].calls)
  /\ UNCHANGED <<variant, image, result, plantProperties, Keywords, relatedWords,
                 cameraVars, text>>

\* The related-questions call resolves with raw.
questionsDone(i, raw) == questionsDoneAs(i, QuestionsOf[raw])

\* The related-questions call resolves with the text under test.
questionsDoneText(i) ==
  questionsDoneAs(i, [KQ |-> generateRelatedQuestions(text),
                      Dyn |-> dynamicQuestions(text)])

\* The related-questions call rejects. generateRelatedQuestions (KQ) catches
\* it and empties the list; in Dyn it is analyzeImage's catch that runs.
questionsFailed(i) ==
  /\ IsAt(i, "analyze", "questions")
  /\ relatedQuestions' = IF variant = "KQ" THEN <<>> ELSE relatedQuestions
  /\ loading' = FALSE
  /\ procs' = RemoveAt(procs, i)
  /\ op' = Op("questionsFailed", procs[i].calls)
  /\ UNCHANGED <<variant, image, result, plantProperties, Keywords, relatedWords,
                 cameraVars, text>>

\* handleRelatedQuestionClick (Dyn), up to its await.
handleRelatedQuestionClick ==
  /\ variant = "Dyn"
  /\ Truthy(result)
  /\ relatedQuestions # <<>>
  /\ Len(procs) < MaxProcs
  /\ loading' = TRUE
  /\ procs' = Append(procs, Proc("question", "answer", NoImage, <<>>, 1, 1))
  /\ op' = Op("handleRelatedQuestionClick", 1)
  /\ UNCHANGED <<variant, image, result, listVars, cameraVars, text>>

\* The answer call resolves with raw.
answered(i, raw) ==
  /\ IsAt(i, "question", "answer")
  /\ result' = AnalysisOf[raw].text
  /\ loading' = FALSE
  /\ procs' = RemoveAt(procs, i)
  /\ op' = Op("answered", procs[i].calls)
  /\ UNCHANGED <<variant, image, listVars, cameraVars, text>>

\* The answer call rejects.
answerFailed(i) ==
  /\ IsAt(i, "question", "answer")
  /\ HandlerFailed(i, "answerFailed")

\* ------------------------------------------------------------ camera

\* The variants with a Start Camera button and a Snap Photo button.
SessionVariants == {"Fake", "PQ", "PW"}

\* The variants whose handleTakePhoto opens the camera, takes one photo and
\* closes it.
OneShotVariants == {"KQ", "Props"}

\* getUserMedia is requested.
RequestCamera(label) ==
  /\ Len(procs) < MaxProcs
  /\ procs' = Append(procs, Proc("camera", "getUserMedia", NoImage, <<>>, 0, 0))
  /\ op' = Op(label, 0)
  /\ UNCHANGED <<variant, image, analysisVars, cameraVars, text>>

\* startCamera (Fake, PQ, PW), up to its await.
startCamera == variant \in SessionVariants /\ RequestCamera("startCamera")

\* handleStartCamera (Dyn), up to its await.
handleStartCamera == variant = "Dyn" /\ RequestCamera("handleStartCamera")

\* handleTakePhoto of KQ and Props (captureImage), up to its first await.
captureImage == variant \in OneShotVariants /\ RequestCamera("captureImage")

\* getUserMedia resolves with a new stream s. The one-shot capture plays it in
\* a video of its own and awaits the metadata. startCamera keeps it in
\* cameraStream and shows it in the page's video, which is mounted only while
\* cameraStream is set (Fake, PQ; PW has no video). handleStartCamera shows it
\* in the video, which is always mounted, and clears the preview.
cameraGranted(i) ==
  /\ IsAt(i, "camera", "getUserMedia")
  /\ nStreams < MaxStreams
  /\ nStreams' = nStreams + 1
  /\ liveStreams' = liveStreams \cup {nStreams + 1}
  /\ procs' =
       IF variant \in OneShotVariants
         THEN [procs EXCEPT ![i].pc = "metadata", ![i].img = Capture(nStreams + 1)]
         ELSE RemoveAt(procs, i)
  /\ cameraStream' =
       IF variant \in SessionVariants THEN nStreams + 1 ELSE cameraStream
  /\ videoSrc' =
       IF variant = "Dyn" \/ (variant \in {"Fake", "PQ"} /\ cameraStream # 0)
         THEN nStreams + 1
         ELSE videoSrc
  /\ cameraStarted' = IF variant = "Dyn" THEN TRUE ELSE cameraStarted
  /\ capturedImageUrl' = IF variant = "Dyn" THEN NoImage ELSE capturedImageUrl
  /\ op' = Op("cameraGranted", 0)
  /\ UNCHANGED <<variant, image, analysisVars, text>>

\* A handler that marks the camera as started outside its try.
cameraDenied_StartsCamera(i) ==
  /\ IsAt(i, "camera", "getUserMedia")
  /\ procs' = RemoveAt(procs, i)
  /\ cameraStarted' = TRUE
  /\ op' = Op("cameraDenied", 0)
  /\ UNCHANGED <<variant, image, analysisVars, cameraStream, capturedImageUrl,
                 videoSrc, liveStreams, nStreams, text>>

\* getUserMedia rejects: the catch logs the error.
cameraDenied(i) ==
  /\ IsAt(i, "camera", "getUserMedia")
  /\ procs' = RemoveAt(procs, i)
  /\ op' = Op("cameraDenied", 0)
  /\ UNCHANGED <<variant, image, analysisVars, cameraVars, text>>

\* The one-shot capture after onloadedmetadata: the frame is drawn, toBlob is
\* asked for the file (blob: whether it will have one) and the tracks stop.
metadataLoaded(i, blob) ==
  /\ IsAt(i, "camera", "metadata")
  /\ liveStreams' = liveStreams \ {procs[i].img.id}
  /\ procs' =
       IF blob
         THEN [procs EXCEPT ![i].kind = "blob", ![i].pc = "callback"]
         ELSE RemoveAt(procs, i)
  /\ op' = Op("metadataLoaded", 0)
  /\ UNCHANGED <<variant, image, analysisVars, cameraStream, cameraStarted,
                 capturedImageUrl, videoSrc, nStreams, text>>

\* A handleTakePhoto that clears cameraStream and leaves its tracks running.
handleTakePhoto_TracksLeft(blob) ==
  /\ variant \in SessionVariants
  /\ cameraStream # 0
  /\ blob => variant \in {"Fake", "PQ"} /\ videoSrc # 0
  /\ procs' =
       IF blob
         THEN Append(procs, Proc("blob", "callback", Capture(videoSrc), <<>>, 0, 0))
         ELSE procs
  /\ cameraStream' = 0
  /\ videoSrc' = 0
  /\ op' = Op("handleTakePhoto", 0)
  /\ UNCHANGED <<variant, image, analysisVars, cameraStarted, capturedImageUrl,
                 liveStreams, nStreams, text>>

\* handleTakePhoto of Fake, PQ and PW, shown while cameraStream is set. The
\* canvas takes the size of the video: Fake and PQ draw the page's video, which
\* has a picture only when a stream was put in it; PW draws a video element made
\* on the spot, whose size is still 0, so that toBlob yields null. The tracks of
\* cameraStream are stopped and cameraStream is cleared, which unmounts the video.
handleTakePhoto(blob) ==
  /\ variant \in SessionVariants
  /\ cameraStream # 0
  /\ blob => variant \in {"Fake", "PQ"} /\ videoSrc # 0
  /\ procs' =
       IF blob
         THEN Append(procs, Proc("blob", "callback", Capture(videoSrc), <<>>, 0, 0))
         ELSE procs
  /\ liveStreams' = liveStreams \ {cameraStream}
  /\ cameraStream' = 0
  /\ videoSrc' = 0
  /\ op' = Op("handleTakePhoto", 0)
  /\ UNCHANGED <<variant, image, analysisVars, cameraStarted, capturedImageUrl,
                 nStreams, text>>

\* handleCapturePhoto (Dyn), shown while cameraStarted. The preview is set to
\* the canvas's data URL at once (frame: whether the video had a picture), the
\* tracks of the video's stream are stopped, and the image is set once the
\* data URL has been fetched.
handleCapturePhoto(frame) ==
  /\ variant = "Dyn"
  /\ cameraStarted
  /\ frame => videoSrc # 0
  /\ Len(procs) < MaxProcs
  /\ capturedImageUrl' = Capture(IF frame THEN videoSrc ELSE 0)
  /\ liveStreams' = liveStreams \ {videoSrc}
  /\ procs' = Append(procs, Proc("blob", "callback",
                                 Capture(IF frame THEN videoSrc ELSE 0), <<>>, 0, 0))
  /\ op' = Op("handleCapturePhoto", 0)
  /\ UNCHANGED <<variant, image, analysisVars, cameraStream, cameraStarted,
                 videoSrc, nStreams, text>>

\* The toBlob callback, or the then of the data-URL fetch: the photo becomes
\* the image (Fake and PQ set the preview with it).
imageCaptured(i) ==
  /\ IsAt(i, "blob", "callback")
  /\ image' = procs[i].img
  /\ capturedImageUrl' =
       IF variant \in {"Fake", "PQ"} THEN procs[i].img ELSE capturedImageUrl
  /\ procs' = RemoveAt(procs, i)
  /\ op' = Op("imageCaptured", 0)
  /\ UNCHANGED <<variant, analysisVars, cameraStream, cameraStarted, videoSrc,
                 liveStreams, nStreams, text>>

\* ------------------------------------------------------------ specification

\* The camera handlers read and write the image, the preview and the camera
\* state and never loading, the result or the lists; the analysis handlers read
\* the image and write loading, the result and the lists. The two groups are
\* therefore explored apart, each with the upload that feeds both: Spec runs
\* the uploads and the analyses, SpecCamera the uploads and the camera.

NextUpload ==
  \/ \E n \in 1..MaxFiles : handleImageUpload(n)
  \/ handleImageUploadNoFile

NextCamera ==
  \/ startCamera
  \/ handleStartCamera
  \/ captureImage
  \/ \E i \in 1..Len(procs) : cameraGranted(i)
  \/ \E i \in 1..Len(procs) : cameraDenied(i)
  \/ \E i \in 1..Len(procs), blob \in BOOLEAN : metadataLoaded(i, blob)
  \/ \E blob \in BOOLEAN : handleTakePhoto(blob)
  \/ \E frame \in BOOLEAN : handleCapturePhoto(frame)
  \/ \E i \in 1..Len(procs) : imageCaptured(i)

NextAnalysis ==
  \/ ClickAnalyze
  \/ regenerateContent
  \/ askRelatedQuestion
  \/ \E i \in 1..Len(procs) : encoded(i)
  \/ \E i \in 1..Len(procs) : encodeFailed(i)
  \/ \E i \in 1..Len(procs) : describeFailed(i)
  \/ \E i \in 1..Len(procs), raw \in Responses : described(i, raw)
  \/ \E i \in 1..Len(procs), raw \in QuestionResponses : questionsDone(i, raw)
  \/ \E i \in 1..Len(procs) : questionsFailed(i)
  \/ handleRelatedQuestionClick
  \/ \E i \in 1..Len(procs), raw \in Responses : answered(i, raw)
  \/ \E i \in 1..Len(procs) : answerFailed(i)

Next == NextUpload \/ NextAnalysis

Spec == Init /\ [][Next]_vars

SpecCamera == Init /\ [][NextUpload \/ NextCamera]_vars

\* Spec with analyzeImage also called directly, whatever the Analyze button
\* allows, as a test of the handler calls it.
SpecDirect == Init /\ [][Next \/ CallAnalyzeImage]_vars

\* ------------------------------------------------------------ texts under test

\* The component with one AI text chosen in advance: the text with which the
\* image-description call of every analysis resolves.
InitText(vs, texts) == InitOf(vs) /\ text \in texts

\* An image is uploaded and analysed, and the description call resolves with
\* the text under test.
NextText ==
  \/ handleImageUpload(1)
  \/ ClickAnalyze
  \/ \E i \in 1..Len(procs) : encoded(i)
  \/ \E i \in 1..Len(procs) : describedText(i)

Letters == <<"a", "b", "c", "d", "e", "f", "g", "h", "i", "j">>

Letter(i) == Letters[((i - 1) % Len(Letters)) + 1]

\* The lines a text may have at place i: a line with a colon that no other
\* place has, a line without one, an empty line.
LinesAt(i) == { <<Letter(i), ":", "x">>, <<Letter(i)>>, <<>> }

MaxLines == 7

\* The texts of n lines.
RECURSIVE TextsOfLines(_)
TextsOfLines(n) ==
  IF n = 1 THEN LinesAt(1)
  ELSE { t \o <<NL>> \o l : t \in TextsOfLines(n - 1), l \in LinesAt(n) }

PropertyTexts == UNION { TextsOfLines(n) : n \in 1..MaxLines }

\* The variants with a plantProperties list.
PropertyVariants == {"Fake", "Props", "PQ", "PW"}

SpecProperties == InitText(PropertyVariants, PropertyTexts) /\ [][NextText]_vars

\* A word of five letters that no other place has.
Word(i) == [k \in 1..(MinKeywordLen + 1) |-> Letter(i)]

\* The tokens a text may have at place i: a long word of its own, a
\* stop-listed word in mixed or upper case, and a short word or the long word
\* of the first place again.
TokensAt(i) ==
  { Word(i),
    IF i % 2 = 1 THEN <<"T","h","i","s">> ELSE <<"H","A","V","E">>,
    IF i % 3 = 1 THEN <<"o","f">> ELSE Word(1) }

MaxTokens == 7

\* The texts of n tokens, separated by a space or a line break.
RECURSIVE TextsOfTokens(_)
TextsOfTokens(n) ==
  IF n = 1 THEN TokensAt(1)
  ELSE { t \o <<IF n % 2 = 0 THEN " " ELSE NL>> \o w :
           t \in TextsOfTokens(n - 1), w \in TokensAt(n) }

KeywordTexts == UNION { TextsOfTokens(n) : n \in 1..MaxTokens }

SpecKeywords ==
  /\ InitText({"KQ"}, KeywordTexts)
  /\ [][NextText \/ \E i \in 1..Len(procs) : questionsFailed(i)]_vars

\* The characters Normalize acts on, and a letter.
NormChars == {"*", "-", BQ, " ", NL, "a"}

MaxNormLen == 4

NormTexts == UNION { [1..n -> NormChars] : n \in 0..MaxNormLen }

SpecNormalize ==
  /\ InitText(AiVariants, NormTexts)
  /\ [][NextText \/ \E i \in 1..Len(procs) : questionsFailed(i)]_vars

\* ------------------------------------------------------------ claims

\* The steps in which an analysis fails before it has a description.
DescriptionFailures == {"encodeFailed", "describeFailed"}

\* The steps an analysis that fails so is made of: the handler's start, the
\* issue of its description call, and the failure.
FailedAnalysisSteps ==
  {"analyzeImage", "regenerateContent", "askRelatedQuestion", "encoded"}
    \cup DescriptionFailures

\* C1: when the image encoding or the image-description call of an analysis
\* fails, no step of that analysis has set the result, a list or the image, and
\* the step that ends the handler leaves loading false and issues no call: the
\* failed handler is gone and the operations left in flight are the ones that
\* were in flight before, with the calls they had issued.
C1_FailureSetsNothing ==
  [][ /\ variant \in AiVariants /\ op'.name \in FailedAnalysisSteps =>
           /\ result' = result
           /\ listVars' = listVars
           /\ image' = image
      /\ op'.name \in DescriptionFailures =>
           /\ loading' = FALSE
           /\ op'.calls <= 1
           /\ \E i \in 1..Len(procs) : procs' = RemoveAt(procs, i) ]_vars

\* An analysis has failed after an earlier one had set a result.
C1_Witness ==
  /\ op.name = "describeFailed"
  /\ result # Null
  /\ image # NoImage
  /\ ~loading

\* C2: analyzeImage invoked while no image is selected issues no call and
\* changes no state of the component: image, loading, result, the lists, the
\* camera state and the operations in flight are as before.
C2_NoImageNoEffect ==
  [][ image = NoImage /\ op'.name = "analyzeImage" =>
        UNCHANGED <<stateVars, liveStreams, nStreams, procs>> ]_vars

\* analyzeImage has been invoked with no image selected.
C2_Witness == op.name = "analyzeImage" /\ image = NoImage

\* C10: the calls of one analysis are sequential. A handler has at most one
\* call outstanding and has issued at most two; its second call is out only
\* once a description has resolved into a result, and only in the variants
\* with a related-questions call; a handler that ends on a failed description
\* has issued exactly one call, and an analyzeImage without an image none.
C10_CallsSequential ==
  /\ \A i \in 1..Len(procs) :
       /\ procs[i].out <= 1
       /\ procs[i].calls <= 2
       /\ procs[i].out <= procs[i].calls
       /\ procs[i].calls = 2 => result # Null /\ variant \in {"KQ", "Dyn"}
  /\ op.calls <= 2
  /\ op.name = "describeFailed" => op.calls = 1
  /\ op.name = "encodeFailed" => op.calls = 0
  /\ image = NoImage => op.calls = 0 /\ procs = <<>>

\* The related-questions call of an analysis is outstanding.
C10_Witness ==
  \E i \in 1..Len(procs) :
    procs[i].pc = "questions" /\ procs[i].calls = 2 /\ procs[i].out = 1

\* xs is ys with entries left out: the entries of xs, in their order, are
\* entries of ys.
RECURSIVE IsSubsequence(_, _)
IsSubsequence(xs, ys) ==
  IF xs = <<>> THEN TRUE
  ELSE IF ys = <<>> THEN FALSE
  ELSE IF Head(xs) = Head(ys) THEN IsSubsequence(Tail(xs), Tail(ys))
  ELSE IsSubsequence(xs, Tail(ys))

\* C3: in the variants with plant properties, once an analysis has set a
\* result the plantProperties list has at most five entries, each holds a
\* colon, and the list is made of lines of the result text in the order in
\* which the text has them.
C3_PropertiesAreColonLines ==
  variant \in PropertyVariants /\ result # Null =>
    /\ Len(plantProperties) <= 5
    /\ \A i \in 1..Len(plantProperties) : Includes(plantProperties[i], <<":">>)
    /\ IsSubsequence(plantProperties, SplitLines(result))

\* An analysis has ended on a text with more than five lines with a colon and
\* a line without one, and the list is full.
C3_Witness ==
  /\ variant \in {"Props", "PQ", "PW"}
  /\ op.name = "analyzed"
  /\ Len(plantProperties) = 5
  /\ \E k \in 1..Len(SplitLines(result)) : ~Includes(SplitLines(result)[k], <<":">>)
  /\ Len(SelectSeq(SplitLines(result), LAMBDA l : Includes(l, <<":">>))) > 5

\* C4: whatever the text, Keywords has at most five entries and none of them
\* is, letter case aside, one of this, that, with, from, have.
C4_KeywordsCapped ==
  /\ Len(Keywords) <= 5
  /\ \A i \in 1..Len(Keywords) : ToLowerCase(Keywords[i]) \notin StopWords

\* generateKeywords has run on a text with a stop-listed word and more than
\* five distinct long words, and the list is full.
C4_Witness ==
  /\ op.name = "described"
  /\ Len(Keywords) = 5
  /\ \E k \in 1..Len(SplitSpaces(result)) :
       ToLowerCase(SplitSpaces(result)[k]) \in StopWords
  /\ Cardinality({ SplitSpaces(result)[k] : k \in
         { j \in 1..Len(SplitSpaces(result)) : Len(SplitSpaces(result)[j]) > 4 } }) > 5

\* C5: Normalize is idempotent: the result an analysis has set, which is the
\* Normalize of the AI's text, is left as it is by Normalize.
C5_NormalizeIdempotent == result # Null => Normalize(result) = result

\* The related words a text has: those of its related-keywords line, none
\* when it has no such line or the line has no colon.
WordsIn(t) ==
  IF extractRelatedWords(t).kind = "set" THEN extractRelatedWords(t).words ELSE <<>>

\* C6: once every handler has finished, each list the variant shows is the one
\* computed from the result now held: the plant properties are its first five
\* colon lines, the keywords its keywords, the related words those of its
\* related-keywords line. No list holds entries of an earlier result.
C6_ListsRecomputed ==
  procs = <<>> /\ result # Null =>
    /\ variant \in {"Props", "PQ", "PW"} =>
         plantProperties = extractPlantProperties(result)
    /\ variant = "KQ" => Keywords = generateKeywords(result)
    /\ variant = "PW" => relatedWords = WordsIn(result)

\* C7: no extractor raises an error, and after an analysis of a text in which
\* an extractor finds nothing its list is empty: no plant properties when no
\* line has a colon, no keywords when no token is longer than four characters,
\* no related questions when the text has no related-questions marker, no
\* related words when the text has no usable related-keywords line.
C7_NothingFoundEmptyList ==
  /\ op.name # "extractFailed"
  /\ procs = <<>> /\ result # Null =>
       /\ ( /\ variant \in {"Props", "PQ", "PW"}
            /\ ~Includes(result, <<":">>) ) => plantProperties = <<>>
       /\ ( /\ variant = "KQ"
            /\ \A k \in 1..Len(SplitSpaces(result)) :
                 Len(SplitSpaces(result)[k]) <= 4 ) => Keywords = <<>>
       /\ ( /\ variant = "PQ"
            /\ ~Includes(ToLowerCase(result), QuestionMarker) ) =>
            relatedQuestions = <<>>
       /\ ( /\ variant = "PW"
            /\ extractRelatedWords(result).kind # "set" ) => relatedWords = <<>>

\* C8: at most one acquired camera stream has live tracks, in the variants
\* with a capture session (startCamera, handleStartCamera): a new session stops
\* the stream of the one before.
C8_OneLiveStream ==
  variant \in SessionVariants \cup {"Dyn"} => Cardinality(liveStreams) <= 1

\* C9: a captured photo is never held while the stream it was taken from is
\* live: not as the image, not as the preview, and not by the callback that
\* is about to set the image once the capturing handler has run.
C9_CapturedStreamStopped ==
  /\ image.kind = "capture" => image.id \notin liveStreams
  /\ capturedImageUrl.kind = "capture" => capturedImageUrl.id \notin liveStreams
  /\ \A i \in 1..Len(procs) :
       procs[i].kind = "blob" => procs[i].img.id \notin liveStreams

\* A photo taken from a camera stream has become the image.
C9_Witness ==
  /\ op.name = "imageCaptured"
  /\ image.kind = "capture"
  /\ image.id \in 1..nStreams

\* C11: when the image-description call of an analysis fails, the handler ends
\* with loading false and with result null, so that no result is shown, also
\* when an earlier analysis had succeeded.
C11_FailureShowsNoResult ==
  op.name = "describeFailed" => ~loading /\ result = Null

\* The two property lines of the example.
NameLine ==
  <<"N","A","M","E",":"," ","A","l","o","e"," ","V","e","r","a">>

SpeciesLine ==
  <<"S","P","E","C","I","E","S",":"," ","A","l","o","e"," ","b","a","r","b","a","d","e","n","s","i","s">>

\* The lines without a colon that may stand around them: an empty line, a
\* word.
FillerLines == { <<>>, <<"A","l","o","e">> }

MaxFill == 2

\* The runs of up to MaxFill filler lines.
FillerRuns == UNION { [1..n -> FillerLines] : n \in 0..MaxFill }

\* The lines ls as one text.
RECURSIVE JoinLines(_)
JoinLines(ls) ==
  IF Len(ls) = 1 THEN ls[1] ELSE ls[1] \o <<NL>> \o JoinLines(Tail(ls))

\* The texts whose lines with a colon are NameLine followed by SpeciesLine.
AloeTexts ==
  { JoinLines(pre \o <<NameLine>> \o mid \o <<SpeciesLine>> \o post) :
      pre \in FillerRuns, mid \in FillerRuns, post \in FillerRuns }

SpecAloe == InitText({"Props", "PQ", "PW"}, AloeTexts) /\ [][NextText]_vars

\* C12: for a text whose lines with a colon are 'NAME: Aloe Vera' followed by
\* 'SPECIES: Aloe barbadensis', the plant properties an analysis sets are
\* exactly those two lines, as they are and in that order.
C12_AloeProperties ==
  ( /\ result # Null
    /\ SelectSeq(SplitLines(text), LAMBDA l : Includes(l, <<":">>))
         = <<NameLine, SpeciesLine>> )
    => plantProperties = <<NameLine, SpeciesLine>>

\* An analysis of such a text with other lines around the two has ended.
C12_Witness ==
  /\ op.name = "analyzed"
  /\ plantProperties = <<NameLine, SpeciesLine>>
  /\ Len(SplitLines(result)) > 3
  /\ SplitLines(result)[1] # NameLine

\* The steps a capture flow whose camera request is denied is made of: the
\* handler's start and the rejection.
DeniedCaptureSteps ==
  {"startCamera", "handleStartCamera", "captureImage", "cameraDenied"}

\* C13: when getUserMedia rejects, no step of the capture flow has changed
\* the image, the preview, the camera state, loading, the result or a list, no
\* stream was acquired, and the handler ends in its catch: the request is gone
\* and nothing of it is left in flight.
C13_DenialChangesNothing ==
  [][ /\ op'.name \in DeniedCaptureSteps =>
           UNCHANGED <<stateVars, liveStreams, nStreams>>
      /\ op'.name = "cameraDenied" =>
           \E i \in 1..Len(procs) :
             /\ procs[i].pc = "getUserMedia"
             /\ procs' = RemoveAt(procs, i) ]_vars

\* A camera request was denied while an image was selected.
C13_Witness ==
  /\ op.name = "cameraDenied"
  /\ image # NoImage

\* C14: the result an analysis sets, which is the Normalize of the AI's text,
\* holds no code fence (three backquotes in a row), no asterisk, no line that
\* begins with a hyphen, and, unless it is the empty text, no line that is
\* empty or made of white space only.
C14_NormalizeOutputClean ==
  (result # Null /\ result # <<>>) =>
    /\ ~Includes(result, <<BQ, BQ, BQ>>)
    /\ ~Includes(result, <<"*">>)
    /\ \A k \in 1..Len(SplitLines(result)) :
         /\ ~HasAt(SplitLines(result)[k], 1, <<"-">>)
         /\ Trim(SplitLines(result)[k]) # <<>>

\* C15: Normalize keeps a hyphen that stands inside a line and the line break
\* after it: when the AI's text has a hyphen right after a letter the result
\* has a hyphen, and when that hyphen ends a line that a letter follows on the
\* next line the result has a line break.
C15_InnerHyphenKept ==
  result # Null =>
    /\ (\E i \in 2..Len(text) : text[i - 1] = "a" /\ text[i] = "-")
         => Includes(result, <<"-">>)
    /\ (\E i \in 2..(Len(text) - 2) :
          /\ text[i - 1] = "a" /\ text[i] = "-"
          /\ text[i + 1] = NL /\ text[i + 2] = "a")
         => Includes(result, <<NL>>)

\* The places of the token list toks where a token longer than four
\* characters and not stop-listed occurs for the first time.
FirstKeywordPlaces(toks) ==
  { k \in 1..Len(toks) :
      /\ Len(toks[k]) > 4
      /\ ToLowerCase(toks[k]) \notin StopWords
      /\ \A j \in 1..(k - 1) : toks[j] # toks[k] }

\* C16: Keywords is the list of the first five distinct white-space separated
\* tokens of the result that are longer than four characters and not
\* stop-listed, in the order of their first occurrence: its i-th entry is the
\* token at the i-th such place, and it has five entries or as many as there
\* are such places.
C16_KeywordsFirstFive ==
  result # Null =>
    LET toks   == SplitSpaces(result)
        places == FirstKeywordPlaces(toks)
    IN  /\ Len(Keywords) = IF Cardinality(places) < 5 THEN Cardinality(places) ELSE 5
        /\ \A i \in 1..Len(Keywords) :
             \E k \in places :
               /\ Keywords[i] = toks[k]
               /\ Cardinality({ j \in places : j < k }) = i - 1

\* generateKeywords has run on a text in which a long word occurs twice and
\* which has more than five distinct long words.
C16_Witness ==
  /\ op.name = "described"
  /\ LET toks   == SplitSpaces(result)
         places == FirstKeywordPlaces(toks)
     IN  /\ Cardinality(places) > 5
         /\ \E k \in places :
              \E j \in (k + 1)..Len(toks) :
                /\ toks[j] = toks[k]
                /\ \E m \in places : m > j

\* The marker as an AI may write it.
MarkerForms ==
  { <<"R","e","l","a","t","e","d"," ","Q","u","e","s","t","i","o","n","s",":">>,
    <<"R","E","L","A","T","E","D"," ","Q","U","E","S","T","I","O","N",":">> }

\* The question lines a text may have at place i, bare or with white space
\* around.
QuestionsAt(i) ==
  { <<"W", Letter(i), "?">>, <<" ", "W", Letter(i), "?", " ">> }

MaxQuestions == 3

\* The runs of n question lines, each after a line break.
RECURSIVE QuestionLines(_)
QuestionLines(n) ==
  IF n = 1 THEN QuestionsAt(1)
  ELSE { t \o <<NL>> \o q : t \in QuestionLines(n - 1), q \in QuestionsAt(n) }

\* The texts made of the marker, a line break or a space, and up to
\* MaxQuestions question lines.
QuestionTexts ==
  { m \o sep \o qs : m \in MarkerForms, sep \in {<<NL>>, <<" ">>},
                     qs \in UNION { QuestionLines(n) : n \in 1..MaxQuestions } }

SpecQuestions == InitText({"PQ"}, QuestionTexts) /\ [][NextText]_vars

\* C17: for a text that starts with the related-questions marker, in either
\* letter case, followed by one or more non-empty lines, the related questions
\* an analysis sets are those lines, trimmed, in their order.
C17_AllQuestionLines ==
  result # Null =>
    relatedQuestions =
      NonEmpty(TrimEach(SplitLines(Drop(text, MarkerEnd(ToLowerCase(text), 1) + 1))))

\* C18: every analysis started from the Analyze button starts in a state in
\* which an image is selected and loading is false, never while loading is
\* true and never without an image; and in every such state the button does
\* start one: nothing but its disabled attribute holds it back.
C18_AnalyzeButtonGuard ==
  [][ /\ op'.name = "analyzeImage" => image # NoImage /\ ~loading
      /\ (image # NoImage /\ ~loading) => Len(procs) < MaxProcs ]_vars

\* An analysis was started from the button after an earlier one had ended.
C18_Witness ==
  /\ op.name = "analyzeImage"
  /\ loading
  /\ result # Null

\* The texts the calls resolve with where only the course of the handlers is
\* of interest: a description with keywords and questions and one without, and
\* one list of questions.
SettlingResponses == {RespFull, RespShort}

SettlingQuestions == {QuestPlain}

\* A call or a file read that a handler awaits settles, one way or the other.
Settle ==
  \E i \in 1..Len(procs) :
    \/ encoded(i)
    \/ encodeFailed(i)
    \/ describeFailed(i)
    \/ \E raw \in SettlingResponses : described(i, raw)
    \/ \E raw \in SettlingQuestions : questionsDone(i, raw)
    \/ questionsFailed(i)
    \/ \E raw \in SettlingResponses : answered(i, raw)
    \/ answerFailed(i)

\* What the user does to start a handler that sets loading.
StartHandler ==
  \/ handleImageUpload(1)
  \/ ClickAnalyze
  \/ regenerateContent
  \/ askRelatedQuestion
  \/ handleRelatedQuestionClick

\* Upload and analysis with every awaited call settling in the end: while a
\* handler waits, Settle is enabled, and it is not left waiting for ever.
SpecSettling == Init /\ [][StartHandler \/ Settle]_vars /\ WF_vars(Settle)

\* C19: when every awaited call settles, loading does not stay true: whenever
\* it is true it becomes false again, whether the handlers succeed or fail;
\* and whenever no handler is in flight loading is false.
C19_LoadingCleared ==
  /\ loading ~> ~loading
  /\ [](procs = <<>> => ~loading)

\* A question handler has failed, and with it the last handler in flight has
\* ended, leaving loading false.
C19_Witness ==
  /\ op.name = "answerFailed"
  /\ procs = <<>>
  /\ ~loading

\* An AI call of some handler has not settled.
CallOutstanding == \E i \in 1..Len(procs) : procs[i].out >= 1

\* C20, as stated: whenever an AI call is outstanding loading is true, in
\* every variant, overlapping handlers included.
C20_LoadingWhileOutstanding == CallOutstanding => loading

\* The variants in which the Analyze button is all that starts a handler with
\* an AI call.
ButtonOnlyVariants == {"Props", "PQ", "PW"}

\* C20, amended: in the variants in which only the Analyze button starts an
\* analysis, loading is true whenever an AI call is outstanding. (Where a
\* keyword or question click starts a second handler, the handler that ends
\* first sets loading false while the call of the other is outstanding.)
C20_LoadingWhileOutstandingButtonOnly ==
  (variant \in ButtonOnlyVariants /\ CallOutstanding) => loading

\* The description call of a second analysis is outstanding.
C20_Witness ==
  /\ variant \in ButtonOnlyVariants
  /\ CallOutstanding
  /\ loading
  /\ result # Null

\* The steps in which a response becomes the result.
ResultSteps == {"described", "analyzed", "extractFailed", "answered"}

\* The step taken is the response of the handler at place i of procs (the
\* handlers in flight, in the order in which they were started) arriving.
ResponseOf(i) ==
  /\ op'.name \in ResultSteps
  /\ procs[i].pc \in {"describe", "answer"}
  /\ \/ procs' = RemoveAt(procs, i)
     \/ Len(procs') = Len(procs) /\ procs'[i] # procs[i]

\* C21, as stated: a response never overwrites the result of a request started
\* later: when the response of a handler becomes the result, no handler
\* started after it has set the result already.
C21_NewestResultKept ==
  [][ \A i \in 1..Len(procs) :
        ResponseOf(i) => \A j \in (i + 1)..Len(procs) : procs[j].pc # "questions" ]_vars

\* C21, amended: in the variants in which only the Analyze button starts a
\* request, the request whose response becomes the result is the only one in
\* flight, hence the one started last.
C21_OnlyRequestSetsResult ==
  [][ (variant \in ButtonOnlyVariants /\ op'.name \in ResultSteps) =>
        Len(procs) = 1 /\ ResponseOf(1) ]_vars

\* A second analysis has ended with its response as the result.
C21_Witness ==
  /\ variant \in ButtonOnlyVariants
  /\ op.name = "analyzed"
  /\ procs = <<>>
  /\ result # Null

\* C22, as stated: in the keywords-and-questions variant, when a successful
\* related-questions call leaves no call outstanding, the questions it
\* returned were generated from the text that is displayed as result.
C22_QuestionsOfDisplayedResult ==
  [][ (variant = "KQ" /\ op'.name = "questionsDone" /\ procs' = <<>>) =>
        procs[1].txt = result' ]_vars

\* C22, amended: the questions are requested for the text that the same step
\* displays as result, and if that text is still displayed when the call
\* succeeds in the only handler in flight, then no call is outstanding and the
\* questions set are those generated from the displayed result.
C22_QuestionsOfLoneAnalysis ==
  [][ variant = "KQ" =>
        /\ \A i \in 1..Len(procs) :
             (op'.name = "described" /\ ResponseOf(i)) => procs'[i].txt = result'
        /\ (op'.name = "questionsDone" /\ Len(procs) = 1 /\ procs[1].txt = result) =>
             procs' = <<>> /\ result' = procs[1].txt ]_vars

\* The questions of an analysis were set with its text displayed and no call
\* outstanding.
C22_Witness ==
  /\ variant = "KQ"
  /\ op.name = "questionsDone"
  /\ procs = <<>>
  /\ Truthy(result)
  /\ relatedQuestions # <<>>

\* C23: in every reachable state the lists extracted synchronously agree with
\* result: plantProperties is the property extraction of result and Keywords
\* the keyword extraction of result, both empty while result is null.
C23_ListsAgreeWithResult ==
  /\ variant \in {"Props", "PQ", "PW"} =>
       plantProperties = IF result = Null THEN <<>> ELSE extractPlantProperties(result)
  /\ variant = "Fake" =>
       plantProperties = IF result = Null THEN <<>> ELSE extractPlantPropertiesFake(result)
  /\ variant = "KQ" =>
       Keywords = IF result = Null THEN <<>> ELSE generateKeywords(result)

\* A description has arrived and set the keywords while another analysis is
\* in flight.
C23_Witness ==
  /\ variant = "KQ"
  /\ op.name = "described"
  /\ Len(procs) = 2
  /\ Keywords # <<>>

\* The step taken is the related-questions call of the handler at place i
\* rejecting.
QuestionsFailedOf(i) ==
  /\ op'.name = "questionsFailed"
  /\ procs[i].pc = "questions"
  /\ procs' = RemoveAt(procs, i)

\* C24, as stated: when the description call succeeded and the
\* related-questions call fails, the handler ends with result holding a
\* normalized text, loading false and the related-questions list empty.
C24_QuestionsFailureEmptiesList ==
  [][ \A i \in 1..Len(procs) :
        QuestionsFailedOf(i) =>
          /\ result' # Null
          /\ loading' = FALSE
          /\ relatedQuestions' = <<>> ]_vars

\* What the page shows as the picture of the selected image: the image itself
\* ({image && <Image src={URL.createObjectURL(image)}/>}), the preview URL
\* ({capturedImageUrl && ...}), or the preview URL once the camera was started
\* ({capturedImageURL && cameraStarted && ...}). NoImage: nothing is shown.
Preview ==
  IF variant \in {"KQ", "Props", "PW"} THEN image
  ELSE IF variant \in {"Fake", "PQ"} THEN capturedImageUrl
  ELSE IF cameraStarted THEN capturedImageUrl
  ELSE NoImage

\* C25: in every reachable state a displayed preview depicts the image that
\* analyzeImage would send, and whenever Analyze is enabled a preview of that
\* image is displayed.
C25_PreviewIsImage ==
  /\ Preview # NoImage => Preview = image
  /\ (image # NoImage /\ ~loading) => Preview = image

\* The Analyze button with every call of the analysis succeeding.
AnalysisSucceeds ==
  \/ ClickAnalyze
  \/ \E i \in 1..Len(procs) : encoded(i)
  \/ \E i \in 1..Len(procs) : described(i, RespFull)
  \/ \E i \in 1..Len(procs) : questionsDone(i, QuestPlain)

\* Uploads and the camera together with analyses, so that files are selected
\* and photos captured while a result is displayed or an analysis is in flight.
SpecSelecting == Init /\ [][NextUpload \/ NextCamera \/ AnalysisSucceeds]_vars

\* The steps of selecting a file and of capturing a photo.
SelectingSteps ==
  {"handleImageUpload", "handleTakePhoto", "handleCapturePhoto", "metadataLoaded",
   "imageCaptured"}

\* The analyses in flight.
Analyses == SelectSeq(procs, LAMBDA p : p.kind \in {"analyze", "question"})

\* C26: selecting a file or capturing a photo replaces image (and the preview
\* and camera state of the variant) and nothing else: loading, result and every
\* extracted list keep their values and no analysis is started or ended; an
\* upload event with no file changes no state at all.
C26_SelectingChangesImageOnly ==
  [][ /\ op'.name \in SelectingSteps =>
           /\ UNCHANGED analysisVars
           /\ Analyses' = Analyses
      /\ op'.name \in {"handleImageUpload", "imageCaptured"} => image' # NoImage
      /\ op'.name = "handleImageUploadNoFile" =>
           UNCHANGED <<stateVars, liveStreams, nStreams, procs>> ]_vars

\* A photo has become the image while the result of an earlier image is
\* displayed.
C26_Witness ==
  /\ op.name = "imageCaptured"
  /\ image.kind = "capture"
  /\ Truthy(result)

Digits == <<"1", "2", "3", "4", "5", "6", "7", "8", "9">>

\* The lines the answer to the related-questions prompt may have at place i:
\* a bare question, a numbered one, a numbered one that is indented, and one
\* with a section and an item number.
NumberedAt(i) ==
  LET q == <<"W", Letter(i), "?">>
      n == <<Digits[i], ".", " ">>
  IN  { q, n \o q, <<" ", " ">> \o n \o q, <<"1", ".">> \o n \o q }

MaxNumbered == 6

\* The runs of n such lines, with line breaks between.
RECURSIVE NumberedLines(_)
NumberedLines(n) ==
  IF n = 1 THEN NumberedAt(1)
  ELSE { t \o <<NL>> \o q : t \in NumberedLines(n - 1), q \in NumberedAt(n) }

\* The lists of up to MaxNumbered questions.
NumberedTexts == UNION { NumberedLines(n) : n \in 1..MaxNumbered }

\* The question-generating variant, its second call resolving with the list
\* under test.
SpecNumbering ==
  /\ InitText({"Dyn"}, NumberedTexts)
  /\ [][ \/ handleImageUpload(1)
         \/ ClickAnalyze
         \/ \E i \in 1..Len(procs) : encoded(i)
         \/ \E i \in 1..Len(procs) : described(i, RespShort)
         \/ \E i \in 1..Len(procs) : questionsDoneText(i) ]_vars

\* q begins with a list numbering: digits followed by a dot.
HasNumbering(q) ==
  LET d == DigitRun(q) IN d > 0 /\ d < Len(q) /\ q[d + 1] = "."

splitTextToSize(t) == SplitLines(t)

\* A downloadPDF without its guard on result.
downloadPDF_NoGuard ==
  /\ op' = [name |-> "downloadPDF", calls |-> 0, saved |-> TRUE,
            lines |-> splitTextToSize(result)]
  /\ UNCHANGED <<variant, image, analysisVars, cameraVars, procs, text>>

\* downloadPDF: nothing without a result; otherwise the lines of result are put
\* in a document that is saved (saved: whether doc.save ran; lines: what
\* doc.text was given). The button is rendered only while result is truthy; the
\* handler is also run without one, as a test of its guard calls it.
downloadPDF ==
  /\ op' = [name |-> "downloadPDF", calls |-> 0, saved |-> Truthy(result),
            lines |-> IF Truthy(result) THEN splitTextToSize(result) ELSE <<>>]
  /\ UNCHANGED <<variant, image, analysisVars, cameraVars, procs, text>>

\* A response that is markup only: its normalized text is empty.
RespMarkup == <<"*", "*">>

DownloadResponses == {RespFull, RespShort, RespMarkup}

\* Upload and analysis, the description call resolving or rejecting, with the
\* PDF downloaded at any moment.
SpecDownload ==
  /\ Init
  /\ [][ \/ handleImageUpload(1)
         \/ ClickAnalyze
         \/ \E i \in 1..Len(procs) : encoded(i)
         \/ \E i \in 1..Len(procs) : describeFailed(i)
         \/ \E i \in 1..Len(procs), raw \in DownloadResponses :
              describedAs(i, Analysis(raw))
         \/ \E i \in 1..Len(procs) : questionsDone(i, QuestPlain)
         \/ downloadPDF ]_vars

====
